---- MODULE Spec2Model ----
(***************************************************************************)
(* Model of code/modules.py: masked_softmax, SimpleSoftmaxLayer,           *)
(* BasicAttn, BiDirAttnFlow and RNNEncoder.                                *)
(*                                                                         *)
(* Tensors are records [shape, val]: shape is the sequence of dimension    *)
(* sizes, val maps every index tuple to a value.  Values are exact         *)
(* rationals <<numerator, denominator>>, denominator > 0, lowest terms.    *)
(* The float32 effects the code relies on are kept: adding -1e30 absorbs   *)
(* a small addend, and exp of a very negative number underflows to 0.      *)
(* exp is modelled as the exact power of ExpBase, so that softmax stays    *)
(* rational; logits in the model are integers.                             *)
(***************************************************************************)
EXTENDS Integers, Sequences, FiniteSets, TLC

VARIABLES layer, feed, out, pc, nfeeds

vars == <<layer, feed, out, pc, nfeeds>>

---------------------------------------------------------------------------
(* Bounds of the model *)

\* largest absolute value of a fed tensor entry
MaxVal == 1
\* number of single-entry feeds applied to the seed inputs before a build:
\* of an attention layer or the encoder, and of the softmax layers
MaxFeeds == 1
MaxSoftmaxFeeds == 2
\* number of seed patterns the inputs start from (0..MaxSeed)
MaxSeed == 2
\* largest constant added to a slice when checking shift invariance
MaxShift == 2

---------------------------------------------------------------------------
(* Exact rational arithmetic *)

Abs(n) == IF n < 0 THEN -n ELSE n

RECURSIVE GCD(_, _)
GCD(a, b) == IF b = 0 THEN a ELSE GCD(b, a % b)

Rat(n, d) == LET g == GCD(Abs(n), d) IN <<n \div g, d \div g>>

Int2Rat(n) == <<n, 1>>

Zero == <<0, 1>>
One == <<1, 1>>

\* the products are taken after cancelling common factors, so that the
\* intermediate integers stay small
RAdd(x, y) ==
    LET g == GCD(x[2], y[2])
    IN Rat((x[1] * (y[2] \div g)) + (y[1] * (x[2] \div g)), (x[2] \div g) * y[2])
RNeg(x) == <<-x[1], x[2]>>
RSub(x, y) == RAdd(x, RNeg(y))
RMul(x, y) ==
    IF x[1] = 0 \/ y[1] = 0 THEN Zero
    ELSE LET g1 == GCD(Abs(x[1]), y[2])
             g2 == GCD(Abs(y[1]), x[2])
         IN <<(x[1] \div g1) * (y[1] \div g2), (x[2] \div g2) * (y[2] \div g1)>>
RInv(y) == IF y[1] > 0 THEN <<y[2], y[1]>> ELSE <<-y[2], -y[1]>>
RDiv(x, y) == RMul(x, RInv(y))
RLeq(x, y) == x[1] * y[2] <= y[1] * x[2]

RECURSIVE RSumSeq(_)
RSumSeq(s) == IF s = <<>> THEN Zero ELSE RAdd(Head(s), RSumSeq(Tail(s)))

RECURSIVE RMaxSeq(_)
RMaxSeq(s) == IF Len(s) = 1 THEN s[1]
              ELSE LET m == RMaxSeq(Tail(s)) IN IF RLeq(m, s[1]) THEN s[1] ELSE m

RECURSIVE Pow(_, _)
Pow(b, n) == IF n = 0 THEN 1 ELSE b * Pow(b, n - 1)

---------------------------------------------------------------------------
(* float32 behaviour used by masked_softmax *)

\* stand-in for the constant 1e30 of masked_softmax
LARGE == 1000000000
\* 2^24: a float32 addend smaller than |x| / 2^24 is absorbed by x
Mantissa == 16777216
\* base of the exponential of the model
ExpBase == 2
\* exp(-d) underflows to exactly 0 for every d above this
ExpUnderflow == 8

\* float32 addition: exact on the small values of the model, absorbing when
\* one operand is at least Mantissa times the other
FloatAdd(x, y) ==
    IF y = Zero THEN x
    ELSE IF x = Zero THEN y
    ELSE IF Abs(y[1]) \div y[2] >= LARGE /\ Abs(x[1]) \div x[2] < LARGE \div Mantissa THEN y
    ELSE IF Abs(x[1]) \div x[2] >= LARGE /\ Abs(y[1]) \div y[2] < LARGE \div Mantissa THEN x
    ELSE RAdd(x, y)

\* exp of a value <= 0 (softmax subtracts the slice maximum first)
Exp(x) ==
    LET d == (-x[1]) \div x[2]
    IN IF d > ExpUnderflow THEN Zero ELSE <<1, Pow(ExpBase, d)>>

---------------------------------------------------------------------------
(* Tensors *)

\* the index tuples of a tensor of the given shape (rank at most 3)
Idx(shape) ==
    CASE Len(shape) = 0 -> {<<>>}
      [] Len(shape) = 1 -> {<<a>> : a \in 1..shape[1]}
      [] Len(shape) = 2 -> {<<a, b>> : a \in 1..shape[1], b \in 1..shape[2]}
      [] Len(shape) = 3 ->
            {<<a, b, c>> : a \in 1..shape[1], b \in 1..shape[2], c \in 1..shape[3]}

\* (@@ makes TLC tabulate the function once instead of re-evaluating F on every access)
Tensor(shape, F(_)) == [shape |-> shape, val |-> ([i \in Idx(shape) |-> F(i)] @@ <<>>)]

Rank(T) == Len(T.shape)

\* element of T at index i of a broadcast result: a dimension of size 1 is repeated
BGet(T, i) == T.val[[k \in 1..Rank(T) |-> IF T.shape[k] = 1 THEN 1 ELSE i[k]]]

BShape(A, B) == [k \in 1..Rank(A) |-> IF A.shape[k] >= B.shape[k] THEN A.shape[k] ELSE B.shape[k]]

\* index i with position k (1-based) replaced by n
At(i, k, n) == [i EXCEPT ![k] = n]

\* index i with position k removed / with n inserted at position k
Drop(i, k) == [m \in 1..(Len(i) - 1) |-> IF m < k THEN i[m] ELSE i[m + 1]]
Ins(i, k, n) == [m \in 1..(Len(i) + 1) |-> IF m < k THEN i[m] ELSE IF m = k THEN n ELSE i[m - 1]]

\* the entries of T along axis k (1-based) through index i, in order
Slice(T, i, k) == [n \in 1..T.shape[k] |-> T.val[At(i, k, n)]]

tf_add(A, B) == Tensor(BShape(A, B), LAMBDA i : RAdd(BGet(A, i), BGet(B, i)))
tf_multiply(A, B) == Tensor(BShape(A, B), LAMBDA i : RMul(BGet(A, i), BGet(B, i)))

\* tf.cast(mask, 'float')
tf_cast_float(M) == Tensor(M.shape, LAMBDA i : Int2Rat(M.val[i]))

\* tf.expand_dims(T, axis): axis is 0-based as in the code
tf_expand_dims(T, axis) ==
    Tensor(Ins(T.shape, axis + 1, 1), LAMBDA i : T.val[Drop(i, axis + 1)])

\* tf.squeeze(T, axis=[axis])
tf_squeeze(T, axis) ==
    Tensor(Drop(T.shape, axis + 1), LAMBDA i : T.val[Ins(i, axis + 1, 1)])

\* tf.transpose(T, perm): perm is 0-based as in the code
tf_transpose(T, perm) ==
    Tensor([k \in 1..Rank(T) |-> T.shape[perm[k] + 1]],
           LAMBDA i : T.val[[m \in 1..Rank(T) |->
                               i[CHOOSE k \in 1..Rank(T) : perm[k] + 1 = m]]])

\* tf.reduce_max(T, axis) / tf.reduce_sum(T, axis): axis is 0-based
tf_reduce_max(T, axis) ==
    Tensor(Drop(T.shape, axis + 1),
           LAMBDA i : RMaxSeq(Slice(T, Ins(i, axis + 1, 1), axis + 1)))
tf_reduce_sum(T, axis) ==
    Tensor(Drop(T.shape, axis + 1),
           LAMBDA i : RSumSeq(Slice(T, Ins(i, axis + 1, 1), axis + 1)))

\* tf.nn.softmax(T, dim): exp(x - max) / sum(exp(x - max)) along axis dim (0-based)
tf_softmax(T, dim) ==
    Tensor(T.shape,
           LAMBDA i :
             LET s == Slice(T, i, dim + 1)
                 m == RMaxSeq(s)
                 e == [n \in 1..Len(s) |-> Exp(RSub(s[n], m))]
             IN RDiv(e[i[dim + 1]], RSumSeq(e)))

RECURSIVE Prod(_, _)
Prod(shape, k) == IF k > Len(shape) THEN 1 ELSE shape[k] * Prod(shape, k + 1)

\* row-major offset (0-based) of index i in a tensor of the given shape, and back
RECURSIVE Lin(_, _, _)
Lin(shape, i, k) ==
    IF k > Len(shape) THEN 0
    ELSE ((i[k] - 1) * Prod(shape, k + 1)) + Lin(shape, i, k + 1)
Unlin(shape, n) ==
    [k \in 1..Len(shape) |-> ((n \div Prod(shape, k + 1)) % shape[k]) + 1]

\* tf.reshape(T, shape): at most one entry of shape is -1 and is inferred
tf_reshape(T, shape) ==
    LET known == Prod([k \in 1..Len(shape) |-> IF shape[k] = -1 THEN 1 ELSE shape[k]], 1)
        full == [k \in 1..Len(shape) |->
                   IF shape[k] = -1 THEN Prod(T.shape, 1) \div known ELSE shape[k]]
    IN Tensor(full, LAMBDA i : T.val[Unlin(T.shape, Lin(full, i, 1))])

\* tf.concat(Ts, axis): Ts is a sequence of tensors equal in every other axis
RECURSIVE Before(_, _, _)
Before(Ts, n, ax) == IF n = 0 THEN 0 ELSE Ts[n].shape[ax] + Before(Ts, n - 1, ax)
tf_concat(Ts, axis) ==
    LET ax == axis + 1
    IN Tensor([Ts[1].shape EXCEPT ![ax] = Before(Ts, Len(Ts), ax)],
              LAMBDA i :
                LET n == CHOOSE m \in 1..Len(Ts) :
                           Before(Ts, m - 1, ax) < i[ax] /\ i[ax] <= Before(Ts, m, ax)
                IN Ts[n].val[At(i, ax, i[ax] - Before(Ts, n - 1, ax))])

---------------------------------------------------------------------------
(* masked_softmax *)

NegLarge == <<-LARGE, 1>>

\* masked_softmax with the mask used the wrong way round
masked_softmax_inverted(logits, mask, dim) ==
    LET castm == tf_cast_float(mask)
        exp_mask == Tensor(mask.shape, LAMBDA i : RMul(castm.val[i], NegLarge))
        masked_logits == Tensor(BShape(logits, exp_mask),
                                LAMBDA i : FloatAdd(BGet(logits, i), BGet(exp_mask, i)))
    IN [masked_logits |-> masked_logits, prob_dist |-> tf_softmax(masked_logits, dim)]

\* masked_softmax that zeroes the padded logits instead of lowering them
masked_softmax_zeroed(logits, mask, dim) ==
    LET castm == tf_cast_float(mask)
        masked_logits == Tensor(BShape(logits, castm),
                                LAMBDA i : RMul(BGet(logits, i), BGet(castm, i)))
    IN [masked_logits |-> masked_logits, prob_dist |-> tf_softmax(masked_logits, dim)]

masked_softmax(logits, mask, dim) ==
    LET castm == tf_cast_float(mask)
        exp_mask == Tensor(mask.shape, LAMBDA i : RMul(RSub(One, castm.val[i]), NegLarge))
        masked_logits == Tensor(BShape(logits, exp_mask),
                                LAMBDA i : FloatAdd(BGet(logits, i), BGet(exp_mask, i)))
        prob_dist == tf_softmax(masked_logits, dim)
    IN [masked_logits |-> masked_logits, prob_dist |-> prob_dist]

\* tf.matmul(A, B): (batched) matrix product over the last two axes
tf_matmul(A, B) ==
    LET r == Rank(A)
    IN Tensor([k \in 1..r |-> IF k < r THEN A.shape[k] ELSE B.shape[r]],
              LAMBDA i : RSumSeq([k \in 1..A.shape[r] |->
                                    RMul(A.val[At(i, r, k)], B.val[At(i, r - 1, k)])]))

---------------------------------------------------------------------------
(* Inputs: seed patterns and single-cell feeds *)

Rng(n) == (2 * n) + 1

RECURSIVE Weighted(_, _)
Weighted(i, k) == IF k = 0 THEN 0 ELSE (Pow(2, k - 1) * i[k]) + Weighted(i, k - 1)

\* entry of seed pattern number seed at index i: 0 everywhere for seed 0
SeedVal(seed, i) ==
    Int2Rat((((seed * Weighted(i, Len(i))) + MaxVal) % Rng(MaxVal)) - MaxVal)

SeedTensor(shape, seed) == Tensor(shape, LAMBDA i : SeedVal(seed, i))
Ones(shape) == Tensor(shape, LAMBDA i : 1)

\* mask of seed pattern number seed: row b keeps a prefix of valid positions
\* (at least one) and is padded at the tail; no padding for seed 0
SeedMask(shape, seed) ==
    Tensor(shape, LAMBDA i : IF i[2] <= shape[2] - ((seed * i[1]) % shape[2]) THEN 1 ELSE 0)

None == [shape |-> <<>>]

---------------------------------------------------------------------------
(* masked_softmax called directly, and SimpleSoftmaxLayer *)

\* shape of the logits handed to masked_softmax
NumRows == 2
NumCols == 3

\* shape of the inputs of SimpleSoftmaxLayer: (batch_size, seq_len, hidden_size)
batch_size == 2
seq_len == 3
hidden_size == 2

\* tf.contrib.layers.fully_connected(inputs, num_outputs=1, activation_fn=None)
fully_connected(inputs, weights, biases) ==
    LET r == Rank(inputs)
    IN Tensor([k \in 1..r |-> IF k < r THEN inputs.shape[k] ELSE 1],
              LAMBDA i : RAdd(RSumSeq([k \in 1..inputs.shape[r] |->
                                         RMul(inputs.val[At(i, r, k)], weights.val[<<k, 1>>])]),
                              biases.val[<<1>>]))

SimpleSoftmaxLayer_build_graph(inputs, masks, weights, biases) ==
    LET logits3 == fully_connected(inputs, weights, biases)
        logits == tf_squeeze(logits3, 2)
    IN masked_softmax(logits, masks, 1)

---------------------------------------------------------------------------
(* BasicAttn *)

\* shapes of BasicAttn's inputs: values (batch_size, num_values, value_vec_size),
\* keys (batch_size, num_keys, value_vec_size)
num_values == 3
num_keys == 2
value_vec_size == 2

\* tf.nn.dropout(x, keep_prob): every entry is kept (and divided by keep_prob)
\* or zeroed; keep is the 0/1 tensor of the random draws
tf_dropout(x, keep_prob, keep) ==
    Tensor(x.shape, LAMBDA i : RDiv(RMul(x.val[i], Int2Rat(keep.val[i])), keep_prob))

\* the draws tf.nn.dropout can make: with keep_prob = 1 every entry is kept;
\* below 1 the model draws either no drop or the drop of one whole row
KeepDraws(shape, keep_prob) ==
    IF keep_prob = One THEN {Ones(shape)}
    ELSE {Ones(shape)} \cup
         {Tensor(shape, LAMBDA i : IF i[1] = j[1] /\ i[2] = j[2] THEN 0 ELSE 1) :
            j \in Idx(<<shape[1], shape[2]>>)}

\* BasicAttn with the softmax taken over the key axis
BasicAttn_build_graph_over_keys(values, values_mask, keys, keep_prob, keep) ==
    LET values_t == tf_transpose(values, <<0, 2, 1>>)
        attn_logits == tf_matmul(keys, values_t)
        attn_logits_mask == tf_expand_dims(values_mask, 1)
        attn_dist == masked_softmax(attn_logits, attn_logits_mask, 1).prob_dist
        output == tf_matmul(attn_dist, values)
    IN [attn_dist |-> attn_dist, output |-> tf_dropout(output, keep_prob, keep)]

BasicAttn_build_graph(values, values_mask, keys, keep_prob, keep) ==
    LET values_t == tf_transpose(values, <<0, 2, 1>>)
        attn_logits == tf_matmul(keys, values_t)
        attn_logits_mask == tf_expand_dims(values_mask, 1)
        attn_dist == masked_softmax(attn_logits, attn_logits_mask, 2).prob_dist
        output == tf_matmul(attn_dist, values)
    IN [attn_dist |-> attn_dist, output |-> tf_dropout(output, keep_prob, keep)]

---------------------------------------------------------------------------
(* BiDirAttnFlow *)

\* static shapes read at the top of BiDirAttnFlow.build_graph
context_len == 3
question_len == 2
hidden_sz == 2

\* the similarity matrix with the element-wise term left unweighted
similarity_matrix_unweighted(question_hiddens, context_hiddens, w_sim1, w_sim2, w_sim3) ==
    LET flat_contexts == tf_reshape(context_hiddens, <<-1, hidden_sz>>)
        flat_questions == tf_reshape(question_hiddens, <<-1, hidden_sz>>)
        context_contribs == tf_reshape(tf_matmul(flat_contexts, w_sim1), <<-1, context_len>>)
        question_contribs == tf_reshape(tf_matmul(flat_questions, w_sim2), <<-1, question_len>>)
        tmp2 == tf_matmul(context_hiddens, tf_transpose(question_hiddens, <<0, 2, 1>>))
        context_contribs_ == tf_expand_dims(context_contribs, 2)
        question_contribs_ == tf_expand_dims(question_contribs, 1)
    IN tf_add(tf_add(context_contribs_, question_contribs_), tmp2)

\* 1. the similarity matrix S
similarity_matrix(question_hiddens, context_hiddens, w_sim1, w_sim2, w_sim3) ==
    LET flat_contexts == tf_reshape(context_hiddens, <<-1, hidden_sz>>)
        flat_questions == tf_reshape(question_hiddens, <<-1, hidden_sz>>)
        context_contribs == tf_reshape(tf_matmul(flat_contexts, w_sim1), <<-1, context_len>>)
        question_contribs == tf_reshape(tf_matmul(flat_questions, w_sim2), <<-1, question_len>>)
        tmp1 == tf_multiply(tf_reshape(w_sim3, <<1, 1, hidden_sz>>), context_hiddens)
        tmp2 == tf_matmul(tmp1, tf_transpose(question_hiddens, <<0, 2, 1>>))
        context_contribs_ == tf_expand_dims(context_contribs, 2)
        question_contribs_ == tf_expand_dims(question_contribs, 1)
    IN tf_add(tf_add(context_contribs_, question_contribs_), tmp2)

\* 2. C2Q attention
c2q_attention(similarities, question_hiddens, qn_mask, context_mask) ==
    LET qn_mask_ == tf_expand_dims(qn_mask, 1)
        cn_mask_ == tf_expand_dims(context_mask, 2)
        c2q_mask == Tensor(BShape(qn_mask_, cn_mask_),
                           LAMBDA i : BGet(qn_mask_, i) * BGet(cn_mask_, i))
        c2q_attn_dist == masked_softmax(similarities, c2q_mask, 1).prob_dist
    IN [c2q_attn_dist |-> c2q_attn_dist,
        c2q_output |-> tf_matmul(c2q_attn_dist, question_hiddens)]

\* 3. Q2C attention
q2c_attention(similarities, context_hiddens, context_mask) ==
    LET row_max_sims == tf_reduce_max(similarities, 2)
        q2c_attn_dist == masked_softmax(row_max_sims, context_mask, 0).prob_dist
        q2c_attn_dist_ == tf_expand_dims(q2c_attn_dist, 1)
    IN [row_max_sims |-> row_max_sims,
        q2c_attn_dist |-> q2c_attn_dist,
        c_prime |-> tf_matmul(q2c_attn_dist_, context_hiddens)]

\* the combination vector with the last two blocks in the other order
combination_swapped(context_hiddens, c2q_output, c_prime) ==
    LET block3 == tf_multiply(context_hiddens, c2q_output)
        block4 == tf_multiply(context_hiddens, c_prime)
    IN tf_concat(<<context_hiddens, c2q_output, block4, block3>>, 2)

\* 4. the combination vector
combination(context_hiddens, c2q_output, c_prime) ==
    LET block3 == tf_multiply(context_hiddens, c2q_output)
        block4 == tf_multiply(context_hiddens, c_prime)
    IN tf_concat(<<context_hiddens, c2q_output, block3, block4>>, 2)

BiDirAttnFlow_build_graph(question_hiddens, qn_mask, context_hiddens, context_mask, w_sim1, w_sim2, w_sim3) ==
    LET similarities == similarity_matrix(question_hiddens, context_hiddens,
                                          w_sim1, w_sim2, w_sim3)
        c2q == c2q_attention(similarities, question_hiddens, qn_mask, context_mask)
        q2c == q2c_attention(similarities, context_hiddens, context_mask)
    IN [similarities |-> similarities,
        c2q_attn_dist |-> c2q.c2q_attn_dist,
        c2q_output |-> c2q.c2q_output,
        row_max_sims |-> q2c.row_max_sims,
        q2c_attn_dist |-> q2c.q2c_attn_dist,
        c_prime |-> q2c.c_prime,
        output |-> combination(context_hiddens, c2q.c2q_output, q2c.c_prime)]

---------------------------------------------------------------------------
(* RNNEncoder *)

\* shape of RNNEncoder's inputs: (batch_size, seq_len, input_size)
input_size == 2
\* hidden size of the encoder's cells
encoder_hidden_size == 2

\* Parameters of the forward and of the backward cell.  The GRU's gate
\* arithmetic is replaced by an affine map of (input, state); the two cells
\* have different parameters, as two separately initialised GRUs have.
rnn_cell_fw == [a |-> 2, b |-> 1]
rnn_cell_bw == [a |-> 3, b |-> 0]

\* one step of a cell: the new state (which is also the step's output)
GRUCell(cell, x, h) ==
    [k \in 1..encoder_hidden_size |->
        RAdd(RAdd(RMul(Int2Rat(cell.a), h[k]),
                  RSumSeq([m \in 1..Len(x) |-> RMul(Int2Rat(m + k), x[m])])),
             Int2Rat(cell.b))]

\* DropoutWrapper(cell, input_keep_prob): dropout on the step's input
DropoutWrapper(cell, x, h, keep_prob, keep) ==
    GRUCell(cell, [m \in 1..Len(x) |-> RDiv(RMul(x[m], Int2Rat(keep[m])), keep_prob)], h)

\* state of batch row b after t steps of tf.nn.dynamic_rnn with
\* sequence_length = lens: a step past the row's length copies the state through
RECURSIVE StateAfter(_, _, _, _, _, _, _)
StateAfter(cell, inputs, lens, keep_prob, keep, b, t) ==
    IF t = 0 THEN [k \in 1..encoder_hidden_size |-> Zero]
    ELSE LET prev == StateAfter(cell, inputs, lens, keep_prob, keep, b, t - 1)
         IN IF t > lens.val[<<b>>][1] THEN prev
            ELSE DropoutWrapper(cell,
                                [m \in 1..inputs.shape[3] |-> inputs.val[<<b, t, m>>]],
                                prev, keep_prob,
                                [m \in 1..inputs.shape[3] |-> keep.val[<<b, t, m>>]])

\* tf.nn.dynamic_rnn(cell, inputs, sequence_length): the outputs are zero
\* past the row's length
dynamic_rnn(cell, inputs, lens, keep_prob, keep) ==
    [outputs |->
        Tensor(<<inputs.shape[1], inputs.shape[2], encoder_hidden_size>>,
               LAMBDA i : IF i[2] > lens.val[<<i[1]>>][1] THEN Zero
                          ELSE StateAfter(cell, inputs, lens, keep_prob, keep, i[1], i[2])[i[3]]),
     state |->
        Tensor(<<inputs.shape[1], encoder_hidden_size>>,
               LAMBDA i : StateAfter(cell, inputs, lens, keep_prob, keep,
                                     i[1], inputs.shape[2])[i[2]])]

\* array_ops.reverse_sequence(T, seq_lengths, seq_axis=1, batch_axis=0): the
\* first lens[b] positions of row b are reversed, the rest stay in place
reverse_sequence(T, lens) ==
    Tensor(T.shape,
           LAMBDA i : IF i[2] > lens.val[<<i[1]>>][1] THEN T.val[i]
                      ELSE T.val[At(i, 2, (lens.val[<<i[1]>>][1] - i[2]) + 1)])

\* tf.nn.bidirectional_dynamic_rnn(cell_fw, cell_bw, inputs, sequence_length)
bidirectional_dynamic_rnn(inputs, lens, keep_prob, keep) ==
    LET fw == dynamic_rnn(rnn_cell_fw, inputs, lens, keep_prob, keep)
        inputs_reverse == reverse_sequence(inputs, lens)
        keep_reverse == reverse_sequence(keep, lens)
        tmp == dynamic_rnn(rnn_cell_bw, inputs_reverse, lens, keep_prob, keep_reverse)
    IN [fw_out |-> fw.outputs,
        bw_out |-> reverse_sequence(tmp.outputs, lens),
        fw_state |-> fw.state,
        bw_state |-> tmp.state]

\* RNNEncoder.build_graph without sequence lengths: every row runs to seq_len
RNNEncoder_build_graph_no_lens(inputs, masks, keep_prob, keep_in, keep_out) ==
    LET input_lens == Tensor(<<inputs.shape[1]>>, LAMBDA i : Int2Rat(inputs.shape[2]))
        rnn == bidirectional_dynamic_rnn(inputs, input_lens, keep_prob, keep_in)
        cat == tf_concat(<<rnn.fw_out, rnn.bw_out>>, 2)
    IN [input_lens |-> tf_reduce_sum(tf_cast_float(masks), 1),
        fw_state |-> rnn.fw_state,
        bw_state |-> rnn.bw_state,
        out |-> tf_dropout(cat, keep_prob, keep_out)]

RNNEncoder_build_graph(inputs, masks, keep_prob, keep_in, keep_out) ==
    LET input_lens == tf_reduce_sum(tf_cast_float(masks), 1)
        rnn == bidirectional_dynamic_rnn(inputs, input_lens, keep_prob, keep_in)
        cat == tf_concat(<<rnn.fw_out, rnn.bw_out>>, 2)
    IN [input_lens |-> input_lens,
        fw_state |-> rnn.fw_state,
        bw_state |-> rnn.bw_state,
        out |-> tf_dropout(cat, keep_prob, keep_out)]

ValueFields ==
    CASE layer = "masked_softmax" -> {"logits"}
      [] layer = "SimpleSoftmaxLayer" -> {"inputs", "weights", "biases"}
      [] layer = "BasicAttn" -> {"values", "keys"}
      [] layer = "RNNEncoder" -> {"inputs"}
      [] layer = "BiDirAttnFlow" ->
            {"question_hiddens", "context_hiddens", "w_sim1", "w_sim2", "w_sim3"}
      [] OTHER -> {}

MaskFields ==
    CASE layer = "masked_softmax" -> {"mask"}
      [] layer = "SimpleSoftmaxLayer" -> {"masks"}
      [] layer = "BasicAttn" -> {"values_mask"}
      [] layer = "RNNEncoder" -> {"masks"}
      [] layer = "BiDirAttnFlow" -> {"qn_mask", "context_mask"}
      [] OTHER -> {}

FeedLimit ==
    IF layer \in {"masked_softmax", "SimpleSoftmaxLayer"} THEN MaxSoftmaxFeeds ELSE MaxFeeds

\* the caller feeds an input that differs in one entry (or a training step
\* moves one weight): the entry goes up or down by one, within the value range
FeedValue ==
    /\ pc = "feed"
    /\ nfeeds < FeedLimit
    /\ \E f \in ValueFields : \E i \in Idx(feed[f].shape) : \E d \in {-1, 1} :
         /\ Abs(feed[f].val[i][1] + d) <= MaxVal
         /\ feed' = [feed EXCEPT ![f].val[i] = Int2Rat(feed[f].val[i][1] + d)]
    /\ nfeeds' = nfeeds + 1
    /\ UNCHANGED <<layer, out, pc>>

\* the caller marks one position as padding
FeedPadding ==
    /\ pc = "feed"
    /\ nfeeds < FeedLimit
    /\ \E f \in MaskFields : \E i \in Idx(feed[f].shape) :
         /\ feed[f].val[i] = 1
         /\ feed' = [feed EXCEPT ![f].val[i] = 0]
    /\ nfeeds' = nfeeds + 1
    /\ UNCHANGED <<layer, out, pc>>

InitMaskedSoftmax ==
    /\ layer = "masked_softmax"
    /\ \E seed \in 0..MaxSeed : \E dim \in 0..1 :
         feed = [logits |-> SeedTensor(<<NumRows, NumCols>>, seed),
                 mask |-> SeedMask(<<NumRows, NumCols>>, seed),
                 dim |-> dim]

InitSimpleSoftmaxLayer ==
    /\ layer = "SimpleSoftmaxLayer"
    /\ \E seed \in 0..MaxSeed :
         feed = [inputs |-> SeedTensor(<<batch_size, seq_len, hidden_size>>, seed),
                 masks |-> SeedMask(<<batch_size, seq_len>>, seed),
                 weights |-> SeedTensor(<<hidden_size, 1>>, seed + 1),
                 biases |-> Tensor(<<1>>, LAMBDA i : Zero)]

RunMaskedSoftmax ==
    /\ pc = "feed"
    /\ layer = "masked_softmax"
    /\ out' = masked_softmax(feed.logits, feed.mask, feed.dim)
    /\ pc' = "built"
    /\ UNCHANGED <<layer, feed, nfeeds>>

BuildSimpleSoftmaxLayer ==
    /\ pc = "feed"
    /\ layer = "SimpleSoftmaxLayer"
    /\ out' = SimpleSoftmaxLayer_build_graph(feed.inputs, feed.masks, feed.weights, feed.biases)
    /\ pc' = "built"
    /\ UNCHANGED <<layer, feed, nfeeds>>

InitSoftmax ==
    /\ InitMaskedSoftmax \/ InitSimpleSoftmaxLayer
    /\ out = None
    /\ pc = "feed"
    /\ nfeeds = 0

NextSoftmax == FeedValue \/ FeedPadding \/ RunMaskedSoftmax \/ BuildSimpleSoftmaxLayer

SpecSoftmax == InitSoftmax /\ [][NextSoftmax]_vars

---------------------------------------------------------------------------
(* Claims about masked_softmax and SimpleSoftmaxLayer *)

\* the mask and the axis of the masked_softmax call of the built layer
CallMask == IF layer = "masked_softmax" THEN feed.mask ELSE feed.masks
CallDim == IF layer = "masked_softmax" THEN feed.dim ELSE 1

\* C1: whenever the slice of the mask along dim through a position has an
\* unmasked entry, prob_dist is exactly 0 at the position if it is masked and
\* the entries of prob_dist along dim through it sum to 1; for masked_softmax
\* called directly on either axis and for SimpleSoftmaxLayer (axis 1).
C1_MaskedSoftmaxIsDistribution ==
    pc = "built" =>
        \A i \in Idx(out.prob_dist.shape) :
            (\E n \in 1..CallMask.shape[CallDim + 1] :
                 CallMask.val[At(i, CallDim + 1, n)] = 1)
            => /\ (CallMask.val[i] = 0 => out.prob_dist.val[i] = Zero)
               /\ RSumSeq(Slice(out.prob_dist, i, CallDim + 1)) = One

\* a built masked_softmax over axis 1 whose slice holds a masked entry and an
\* entry with a probability strictly between 0 and 1
C1_Witness ==
    /\ pc = "built"
    /\ layer = "masked_softmax"
    /\ feed.dim = 1
    /\ \E i \in Idx(feed.mask.shape) : \E j \in Idx(feed.mask.shape) :
         /\ j[1] = i[1]
         /\ feed.mask.val[i] = 0
         /\ feed.mask.val[j] = 1
         /\ out.prob_dist.val[j] # One
         /\ out.prob_dist.val[j] # Zero

\* the logits with the constant c added to every entry of the slice along
\* axis ax (1-based) through index i
ShiftSlice(T, i, ax, c) ==
    Tensor(T.shape, LAMBDA j : IF Drop(j, ax) = Drop(i, ax)
                               THEN RAdd(T.val[j], Int2Rat(c)) ELSE T.val[j])

\* C8: adding one constant to all logits of a slice along dim leaves the
\* prob_dist of that slice unchanged, masked positions included.
C8_ShiftInvariance ==
    (pc = "built" /\ layer = "masked_softmax") =>
        \A c \in (-MaxShift)..MaxShift : \A i \in Idx(feed.logits.shape) :
            i[feed.dim + 1] = 1 =>
                Slice(masked_softmax(ShiftSlice(feed.logits, i, feed.dim + 1, c),
                                     feed.mask, feed.dim).prob_dist, i, feed.dim + 1)
                = Slice(out.prob_dist, i, feed.dim + 1)

\* a built masked_softmax over axis 1 with a slice that holds a masked entry
\* and two unmasked entries of different probability
C8_Witness ==
    /\ pc = "built"
    /\ layer = "masked_softmax"
    /\ feed.dim = 1
    /\ \E i \in Idx(feed.mask.shape) : \E j \in Idx(feed.mask.shape) :
         /\ j[1] = i[1]
         /\ feed.mask.val[i] = 1
         /\ feed.mask.val[j] = 1
         /\ out.prob_dist.val[i] # out.prob_dist.val[j]
         /\ \E n \in 1..NumCols : feed.mask.val[At(i, 2, n)] = 0

---------------------------------------------------------------------------
(* BasicAttn: specification *)

InitBasicAttn ==
    /\ layer = "BasicAttn"
    /\ \E seed \in 0..MaxSeed :
         feed = [values |-> SeedTensor(<<batch_size, num_values, value_vec_size>>, seed),
                 values_mask |-> SeedMask(<<batch_size, num_values>>, seed),
                 keys |-> SeedTensor(<<batch_size, num_keys, value_vec_size>>, seed + 1),
                 keep_prob |-> One]
    /\ out = None
    /\ pc = "feed"
    /\ nfeeds = 0

BuildBasicAttn ==
    /\ pc = "feed"
    /\ layer = "BasicAttn"
    /\ \E keep \in KeepDraws(<<batch_size, num_keys, value_vec_size>>, feed.keep_prob) :
         out' = BasicAttn_build_graph(feed.values, feed.values_mask, feed.keys,
                                      feed.keep_prob, keep)
    /\ pc' = "built"
    /\ UNCHANGED <<layer, feed, nfeeds>>

\* the caller switches to training: keep_prob below 1
FeedKeepProb ==
    /\ pc = "feed"
    /\ layer \in {"BasicAttn", "RNNEncoder"}
    /\ nfeeds < FeedLimit
    /\ feed.keep_prob = One
    /\ feed' = [feed EXCEPT !.keep_prob = <<1, 2>>]
    /\ nfeeds' = nfeeds + 1
    /\ UNCHANGED <<layer, out, pc>>

NextBasicAttn == FeedValue \/ FeedPadding \/ FeedKeepProb \/ BuildBasicAttn

SpecBasicAttn == InitBasicAttn /\ [][NextBasicAttn]_vars

---------------------------------------------------------------------------
(* Claims about BasicAttn *)

\* C4: for every batch element with an unmasked value and every key, the row
\* of attn_dist sums to 1 over the value positions and is 0 at every masked
\* value position; with keep_prob = 1 the output of the key is the sum of the
\* values weighted by that row.
C4_BasicAttnRows ==
    (pc = "built" /\ layer = "BasicAttn") =>
        \A b \in 1..batch_size :
            (\E v \in 1..num_values : feed.values_mask.val[<<b, v>>] = 1) =>
                \A key \in 1..num_keys :
                    /\ RSumSeq([v \in 1..num_values |-> out.attn_dist.val[<<b, key, v>>]]) = One
                    /\ \A v \in 1..num_values :
                           feed.values_mask.val[<<b, v>>] = 0
                           => out.attn_dist.val[<<b, key, v>>] = Zero
                    /\ feed.keep_prob = One =>
                           \A k \in 1..value_vec_size :
                               out.output.val[<<b, key, k>>]
                               = RSumSeq([v \in 1..num_values |->
                                            RMul(out.attn_dist.val[<<b, key, v>>],
                                                 feed.values.val[<<b, v, k>>])])

\* a built BasicAttn with keep_prob = 1, a masked value position and a key
\* whose weights over the unmasked values differ
C4_Witness ==
    /\ pc = "built"
    /\ layer = "BasicAttn"
    /\ feed.keep_prob = One
    /\ \E b \in 1..batch_size : \E key \in 1..num_keys :
         /\ \E v \in 1..num_values : feed.values_mask.val[<<b, v>>] = 0
         /\ \E v \in 1..num_values : \E w \in 1..num_values :
              /\ feed.values_mask.val[<<b, v>>] = 1
              /\ feed.values_mask.val[<<b, w>>] = 1
              /\ out.attn_dist.val[<<b, key, v>>] # out.attn_dist.val[<<b, key, w>>]
         /\ \E k \in 1..value_vec_size : out.output.val[<<b, key, k>>] # Zero

---------------------------------------------------------------------------
(* BiDirAttnFlow: specification *)

InitBiDirAttnFlow ==
    /\ layer = "BiDirAttnFlow"
    /\ \E seed \in 0..MaxSeed :
         feed = [question_hiddens |-> SeedTensor(<<batch_size, question_len, hidden_sz>>, seed + 1),
                 qn_mask |-> SeedMask(<<batch_size, question_len>>, seed),
                 context_hiddens |-> SeedTensor(<<batch_size, context_len, hidden_sz>>, seed),
                 context_mask |-> SeedMask(<<batch_size, context_len>>, seed),
                 w_sim1 |-> SeedTensor(<<hidden_sz, 1>>, seed + 1),
                 w_sim2 |-> SeedTensor(<<hidden_sz, 1>>, seed + 2),
                 w_sim3 |-> SeedTensor(<<hidden_sz, 1>>, seed)]
    /\ out = None
    /\ pc = "feed"
    /\ nfeeds = 0

BuildBiDirAttnFlow ==
    /\ pc = "feed"
    /\ layer = "BiDirAttnFlow"
    /\ out' = BiDirAttnFlow_build_graph(feed.question_hiddens, feed.qn_mask,
                                        feed.context_hiddens, feed.context_mask,
                                        feed.w_sim1, feed.w_sim2, feed.w_sim3)
    /\ pc' = "built"
    /\ UNCHANGED <<layer, feed, nfeeds>>

NextBiDirAttnFlow == FeedValue \/ FeedPadding \/ BuildBiDirAttnFlow

SpecBiDirAttnFlow == InitBiDirAttnFlow /\ [][NextBiDirAttnFlow]_vars

---------------------------------------------------------------------------
(* Claims about BiDirAttnFlow *)

BuildOf(f) ==
    BiDirAttnFlow_build_graph(f.question_hiddens, f.qn_mask, f.context_hiddens,
                              f.context_mask, f.w_sim1, f.w_sim2, f.w_sim3)

Built == pc = "built" /\ layer = "BiDirAttnFlow"

HasQuestion(b) == \E j \in 1..question_len : feed.qn_mask.val[<<b, j>>] = 1
HasContext(b) == \E i \in 1..context_len : feed.context_mask.val[<<b, i>>] = 1

\* C2: for every batch element and every unmasked context position i the
\* C2Q weights over the question positions sum to 1 and are 0 at the masked
\* question positions, and c2q_output[i] is the sum of the question hiddens
\* weighted by them.
C2_C2QOverQuestionAxis ==
    Built =>
        \A b \in 1..batch_size : \A i \in 1..context_len :
            (HasQuestion(b) /\ feed.context_mask.val[<<b, i>>] = 1) =>
                /\ RSumSeq([j \in 1..question_len |-> out.c2q_attn_dist.val[<<b, i, j>>]]) = One
                /\ \A j \in 1..question_len :
                       feed.qn_mask.val[<<b, j>>] = 0 => out.c2q_attn_dist.val[<<b, i, j>>] = Zero
                /\ \A k \in 1..hidden_sz :
                       out.c2q_output.val[<<b, i, k>>]
                       = RSumSeq([j \in 1..question_len |->
                                    RMul(out.c2q_attn_dist.val[<<b, i, j>>],
                                         feed.question_hiddens.val[<<b, j, k>>])])

\* C3: for every batch element the Q2C weights sum to 1 over its context
\* positions and are 0 at its masked context positions, and c_prime is the
\* sum of its context hiddens weighted by them.
C3_Q2COverContextAxis ==
    Built =>
        \A b \in 1..batch_size :
            HasContext(b) =>
                /\ RSumSeq([i \in 1..context_len |-> out.q2c_attn_dist.val[<<b, i>>]]) = One
                /\ \A i \in 1..context_len :
                       feed.context_mask.val[<<b, i>>] = 0 => out.q2c_attn_dist.val[<<b, i>>] = Zero
                /\ \A k \in 1..hidden_sz :
                       out.c_prime.val[<<b, 1, k>>]
                       = RSumSeq([i \in 1..context_len |->
                                    RMul(out.q2c_attn_dist.val[<<b, i>>],
                                         feed.context_hiddens.val[<<b, i, k>>])])

\* the reference value w1.c_i + w2.q_j + w3.(c_i * q_j)
RefSimilarity(b, i, j) ==
    RSumSeq([k \in 1..hidden_sz |->
               RAdd(RAdd(RMul(feed.w_sim1.val[<<k, 1>>], feed.context_hiddens.val[<<b, i, k>>]),
                         RMul(feed.w_sim2.val[<<k, 1>>], feed.question_hiddens.val[<<b, j, k>>])),
                    RMul(feed.w_sim3.val[<<k, 1>>],
                         RMul(feed.context_hiddens.val[<<b, i, k>>],
                              feed.question_hiddens.val[<<b, j, k>>])))])

\* C5: the similarity matrix of the decomposed path has shape
\* (batch, context_len, question_len) and equals the reference value
\* w1.c_i + w2.q_j + w3.(c_i * q_j) at every (b, i, j).
C5_SimilarityMatrix ==
    Built =>
        /\ out.similarities.shape = <<batch_size, context_len, question_len>>
        /\ \A b \in 1..batch_size : \A i \in 1..context_len : \A j \in 1..question_len :
               out.similarities.val[<<b, i, j>>] = RefSimilarity(b, i, j)

\* a built layer in which two weights of w_sim3 differ and the element-wise
\* term of some pair (c_i, q_j) is not 0
C5_Witness ==
    /\ Built
    /\ feed.w_sim3.val[<<1, 1>>] # feed.w_sim3.val[<<2, 1>>]
    /\ \E b \in 1..batch_size : \E i \in 1..context_len : \E j \in 1..question_len :
         \E k \in 1..hidden_sz :
            /\ feed.w_sim3.val[<<k, 1>>] # Zero
            /\ feed.context_hiddens.val[<<b, i, k>>] # Zero
            /\ feed.question_hiddens.val[<<b, j, k>>] # Zero
            /\ out.similarities.val[<<b, i, j>>] # Zero

\* C6: the output has shape (batch, context_len, 4*hidden_size) and its row i
\* is context_hiddens[i], c2q_output[i], their element-wise product, and the
\* element-wise product of context_hiddens[i] with c_prime, in this order;
\* c_prime is one vector per batch element.
C6_OutputFusion ==
    Built =>
        /\ out.output.shape = <<batch_size, context_len, 4 * hidden_sz>>
        /\ out.c_prime.shape = <<batch_size, 1, hidden_sz>>
        /\ \A b \in 1..batch_size : \A i \in 1..context_len : \A k \in 1..hidden_sz :
               /\ out.output.val[<<b, i, k>>] = feed.context_hiddens.val[<<b, i, k>>]
               /\ out.output.val[<<b, i, hidden_sz + k>>] = out.c2q_output.val[<<b, i, k>>]
               /\ out.output.val[<<b, i, (2 * hidden_sz) + k>>]
                  = RMul(feed.context_hiddens.val[<<b, i, k>>], out.c2q_output.val[<<b, i, k>>])
               /\ out.output.val[<<b, i, (3 * hidden_sz) + k>>]
                  = RMul(feed.context_hiddens.val[<<b, i, k>>], out.c_prime.val[<<b, 1, k>>])

\* a built layer with a row whose third and fourth blocks differ
C6_Witness ==
    /\ Built
    /\ \E b \in 1..batch_size : \E i \in 1..context_len : \E k \in 1..hidden_sz :
         /\ out.output.val[<<b, i, (2 * hidden_sz) + k>>]
            # out.output.val[<<b, i, (3 * hidden_sz) + k>>]
         /\ out.output.val[<<b, i, (3 * hidden_sz) + k>>] # Zero
         /\ out.output.val[<<b, i, hidden_sz + k>>] # out.output.val[<<b, i, k>>]

\* the inputs with one entry of the tensor f moved by d
Moved(f, i, d) == [feed EXCEPT ![f].val[i] = Int2Rat(feed[f].val[i][1] + d)]

\* the inputs that differ from the fed ones in one entry of a hidden vector
\* of a batch element other than b
OtherBatchVariants(b) ==
    {Moved("question_hiddens", i, d) :
        i \in {x \in Idx(<<batch_size, question_len, hidden_sz>>) : x[1] # b}, d \in {-1, 1}}
    \cup
    {Moved("context_hiddens", i, d) :
        i \in {x \in Idx(<<batch_size, context_len, hidden_sz>>) : x[1] # b}, d \in {-1, 1}}

\* C9: the output rows of batch element b do not change when the inputs of
\* another batch element of the same call change.
C9_BatchIndependence ==
    Built =>
        \A b \in 1..batch_size : \A v \in OtherBatchVariants(b) :
            LET other == BuildOf(v).output
            IN \A i \in 1..context_len : \A k \in 1..(4 * hidden_sz) :
                   other.val[<<b, i, k>>] = out.output.val[<<b, i, k>>]

\* the inputs that differ from the fed ones in one entry of the hidden vector
\* of a masked question position of batch element b
PaddingVariants(b) ==
    {Moved("question_hiddens", i, d) :
        i \in {x \in Idx(<<batch_size, question_len, hidden_sz>>) :
                 x[1] = b /\ feed.qn_mask.val[<<b, x[2]>>] = 0},
        d \in {-1, 1}}

\* C10: with an unmasked question position and an unmasked context position,
\* the output rows at the unmasked context positions do not depend on the
\* hidden vectors at the masked question positions, and the C2Q weights of
\* those positions are 0.
C10_PaddingNonInterference ==
    Built =>
        \A b \in 1..batch_size :
            (HasQuestion(b) /\ HasContext(b)) =>
                /\ \A i \in 1..context_len : \A j \in 1..question_len :
                       (feed.context_mask.val[<<b, i>>] = 1 /\ feed.qn_mask.val[<<b, j>>] = 0)
                       => out.c2q_attn_dist.val[<<b, i, j>>] = Zero
                /\ \A v \in PaddingVariants(b) :
                       LET other == BuildOf(v).output
                       IN \A i \in 1..context_len : \A k \in 1..(4 * hidden_sz) :
                              feed.context_mask.val[<<b, i>>] = 1
                              => other.val[<<b, i, k>>] = out.output.val[<<b, i, k>>]

---------------------------------------------------------------------------
(* RNNEncoder: specification and claim *)

InitRNNEncoder ==
    /\ layer = "RNNEncoder"
    /\ \E seed \in 0..MaxSeed :
         feed = [inputs |-> SeedTensor(<<batch_size, seq_len, input_size>>, seed),
                 masks |-> SeedMask(<<batch_size, seq_len>>, seed),
                 keep_prob |-> One]
    /\ out = None
    /\ pc = "feed"
    /\ nfeeds = 0

\* the draws of the two dropouts: none dropped, or one row of either
EncoderDraws(keep_prob) ==
    LET in_shape == <<batch_size, seq_len, input_size>>
        out_shape == <<batch_size, seq_len, 2 * encoder_hidden_size>>
    IN {<<ki, Ones(out_shape)>> : ki \in KeepDraws(in_shape, keep_prob)}
       \cup {<<Ones(in_shape), ko>> : ko \in KeepDraws(out_shape, keep_prob)}

BuildRNNEncoder ==
    /\ pc = "feed"
    /\ layer = "RNNEncoder"
    /\ \E draw \in EncoderDraws(feed.keep_prob) :
         out' = RNNEncoder_build_graph(feed.inputs, feed.masks, feed.keep_prob,
                                       draw[1], draw[2])
    /\ pc' = "built"
    /\ UNCHANGED <<layer, feed, nfeeds>>

NextRNNEncoder == FeedValue \/ FeedPadding \/ FeedKeepProb \/ BuildRNNEncoder

SpecRNNEncoder == InitRNNEncoder /\ [][NextRNNEncoder]_vars

\* number of unmasked positions of row b
ValidLen(b) == Cardinality({t \in 1..seq_len : feed.masks.val[<<b, t>>] = 1})

\* the mask of row b is 0 only on a tail
TailPadded(b) == \A t \in 1..seq_len : feed.masks.val[<<b, t>>] = 1 <=> t <= ValidLen(b)

\* the encoding of row b alone, with its padding cut off
Truncated(b) ==
    RNNEncoder_build_graph(
        Tensor(<<1, ValidLen(b), input_size>>, LAMBDA i : feed.inputs.val[<<b, i[2], i[3]>>]),
        Ones(<<1, ValidLen(b)>>), One,
        Ones(<<1, ValidLen(b), input_size>>),
        Ones(<<1, ValidLen(b), 2 * encoder_hidden_size>>))

\* C7: with keep_prob = 1 the valid length of a row is the row sum of its
\* mask, and for a row padded only at the tail the forward and backward hidden
\* states below the valid length, and the final states, are those of the row
\* encoded with the padding removed.
C7_PaddingIsNotEncoded ==
    (pc = "built" /\ layer = "RNNEncoder" /\ feed.keep_prob = One) =>
        \A b \in 1..batch_size :
            /\ out.input_lens.val[<<b>>] = Int2Rat(ValidLen(b))
            /\ (TailPadded(b) /\ ValidLen(b) >= 1) =>
                   LET cut == Truncated(b)
                   IN /\ \A t \in 1..ValidLen(b) : \A k \in 1..(2 * encoder_hidden_size) :
                             out.out.val[<<b, t, k>>] = cut.out.val[<<1, t, k>>]
                      /\ \A k \in 1..encoder_hidden_size :
                             /\ out.fw_state.val[<<b, k>>] = cut.fw_state.val[<<1, k>>]
                             /\ out.bw_state.val[<<b, k>>] = cut.bw_state.val[<<1, k>>]

\* a built encoder with keep_prob = 1 and a row with two valid positions, a
\* padded tail holding a non-zero input, and different hidden states at the
\* two valid positions
C7_Witness ==
    /\ pc = "built"
    /\ layer = "RNNEncoder"
    /\ feed.keep_prob = One
    /\ \E b \in 1..batch_size :
         /\ TailPadded(b)
         /\ ValidLen(b) = 2
         /\ \E m \in 1..input_size : feed.inputs.val[<<b, seq_len, m>>] # Zero
         /\ \E k \in 1..(2 * encoder_hidden_size) :
              out.out.val[<<b, 1, k>>] # out.out.val[<<b, 2, k>>]

---------------------------------------------------------------------------
(* All layers together *)

Init == InitSoftmax \/ InitBasicAttn \/ InitBiDirAttnFlow \/ InitRNNEncoder

Next ==
    \/ FeedValue
    \/ FeedPadding
    \/ FeedKeepProb
    \/ RunMaskedSoftmax
    \/ BuildSimpleSoftmaxLayer
    \/ BuildBasicAttn
    \/ BuildBiDirAttnFlow
    \/ BuildRNNEncoder

Spec == Init /\ [][Next]_vars

====
